---- MODULE Spec2Model ----
(***************************************************************************)
(* Model of the two control nodes of the vehicle:                          *)
(*   PIDControl   (cougars_cpp/src/pid_control.cpp)                        *)
(*   CougControls (cougars_control/src/coug_controls.cpp)                  *)
(* Each node is a single-threaded executor (rclcpp::spin) that runs one    *)
(* callback at a time: the init callback, five input callbacks and the     *)
(* periodic timer callback.  One behaviour of the model is one process of  *)
(* one of the two nodes; `node` says which.                                *)
(*                                                                         *)
(* Real numbers (float/double fields, parameters, message values) are      *)
(* represented exactly as integers counting tenths: the real x is the      *)
(* integer x * Scale.  Integer fields (PID outputs, fin[], thruster,       *)
(* attitude_yaw, min/max_output, bias, the timer period) are plain         *)
(* integers.  Binary floating-point rounding is not modelled.              *)
(*                                                                         *)
(* The PID class (pid.h / pid.cpp) is not among the sources; calibrate and *)
(* compute are modelled from sections 3 and 4.1 of the specification.      *)
(***************************************************************************)
EXTENDS Integers, Sequences, FiniteSets, TLC

VARIABLES
    node,               \* which node this process is
    parameters,         \* the declared ROS parameters (fixed after construction)
    init_flag,          \* bool init_flag
    desired_depth,      \* float desired_depth        (tenths)
    desired_heading,    \* float desired_heading      (tenths)
    desired_speed,      \* float desired_speed        (tenths)
    depth,              \* PIDControl: float depth    (tenths)
    yaw,                \* PIDControl: float yaw      (tenths)
    x_velocity,         \* PIDControl: float x_velocity (tenths), never written
    actual_depth,       \* CougControls: float actual_depth   (tenths)
    actual_heading,     \* CougControls: float actual_heading (tenths)
    magnetic_declination, \* CougControls: double magnetic_declination (tenths)
    myDepthPID,         \* PID myDepthPID
    myHeadingPID,       \* PID myHeadingPID
    myVelocityPID,      \* PIDControl: PID myVelocityPID
    control_command,    \* last message published on control_command
    n_published,        \* number of messages published on control_command
    ticks,              \* number of timer_callback executions
    running_ticks,      \* number of timer_callback executions that saw init_flag
    compute_calls,      \* number of compute calls per controller
    tick_log,           \* locals of the most recent timer_callback execution
    delivered,          \* last message delivered on each inbound channel, the
                        \* last modem message that was a status report, the
                        \* number of init messages, and the last messages as
                        \* they stood when init first arrived
    fresh,              \* an input callback ran since the last timer_callback
    msgs,               \* number of inbound messages delivered so far
    startup,            \* construction: phase, calibrate calls made, requested
                        \* configuration
    pc,                 \* position of the executor thread inside timer_callback
    bench,              \* the held-error experiment on one controller
    pair,               \* three runs of the node side by side, for comparison
    stamps              \* header stamps of the published commands

vars == <<node, parameters, init_flag, desired_depth, desired_heading,
          desired_speed, depth, yaw, x_velocity, actual_depth, actual_heading,
          magnetic_declination, myDepthPID, myHeadingPID, myVelocityPID,
          control_command, n_published, ticks, running_ticks, compute_calls,
          tick_log, delivered, fresh, msgs, startup, pc, bench, pair,
          stamps>>

\* The program state proper (everything but the observation variables).
inputVars == <<desired_depth, desired_heading, desired_speed, depth, yaw,
               x_velocity, actual_depth, actual_heading>>

pidVars == <<myDepthPID, myHeadingPID, myVelocityPID>>

\* What no callback changes: the configuration, the record of the
\* construction, (callbacks being run whole) the position inside a tick, and
\* the record of the held-error experiment, the runs kept for comparison and
\* the record of header stamps.
configVars == <<node, parameters, magnetic_declination, startup, pc, bench,
                pair, stamps>>

outputVars == <<control_command, n_published>>

-----------------------------------------------------------------------------
(* Bounds of the exploration *)

MaxTicks == 3

MaxMsgs == 3

-----------------------------------------------------------------------------
(* Program constants *)

\* Reals are counted in tenths; 0.1 * attitude_yaw is then attitude_yaw itself.
Scale == 10

\* CID_STATUS, the msg_id of a status report.
STATUS_MSG_ID == 16

\* Default of the (pid_)timer_period parameter, milliseconds.
DefaultTimerPeriod == 80

\* No message: the inbound channels hold <<>> or <<last message>>.
NoMsg == <<>>

\* CougControls has no velocity controller.
NoPID == "absent"

\* The value-initialised UCommand (nothing published yet).
NoCommand == [fin |-> [i \in 0..2 |-> 0], thruster |-> 0]

\* The executor thread is not inside timer_callback: no locals.
NotInTick ==
    [at |-> "idle", stale |-> FALSE,
     snapshot |-> [desired_depth |-> 0, desired_heading |-> 0,
                   desired_speed |-> 0, depth_data |-> 0, modem |-> 0],
     depth_args |-> <<0, 0>>, heading_args |-> <<0, 0>>,
     depth_pos |-> 0, heading_pos |-> 0, stamp |-> 0]

\* No runs kept for comparison.
NoPair == <<>>

\* No command published yet: no header stamp.
NoStamps == [stamp |-> 0, previous |-> 0, began |-> 0, published_at |-> 0]

\* No held-error experiment in progress.
NoBench == [error |-> 0, held |-> 0, saturated |-> 0, released |-> 0, output |-> 0]

Nodes == {"PIDControl", "CougControls"}

-----------------------------------------------------------------------------
(* Numeric conversions *)

\* Conversion of a real (n tenths) to int: C++ discards the fractional part,
\* i.e. truncates toward zero.
FloatToInt(n) ==
    IF n >= 0 THEN n \div Scale ELSE -((-n) \div Scale)

RoundHalfAway_toward_zero(n, d) ==
    IF n >= 0 THEN n \div d ELSE -((-n) \div d)

\* n / d rounded to the nearest integer, ties away from zero (d > 0).
RoundHalfAway(n, d) ==
    IF n >= 0 THEN (2 * n + d) \div (2 * d)
              ELSE -((2 * (-n) + d) \div (2 * d))

Clamp_upper_only(x, lo, hi) ==
    IF x > hi THEN hi ELSE x

\* x limited to [lo, hi].
Clamp(x, lo, hi) ==
    IF x > hi THEN hi ELSE IF x < lo THEN lo ELSE x

-----------------------------------------------------------------------------
(* The PID axis controller (class PID) *)

\* calibrate(kp, ki, kd, min_output, max_output, period, bias): sets the
\* tunables and the period and zeroes the transient state.
PID_calibrate(kp, ki, kd, min_output, max_output, period, bias) ==
    [kp |-> kp, ki |-> ki, kd |-> kd,
     min_output |-> min_output, max_output |-> max_output,
     period |-> period, bias |-> bias,
     integral |-> 0, previous_error |-> 0, previous_output |-> 0]

\* Denominator of the exact fractions used by compute: gains and errors are
\* tenths, and the derivative divides by the period.
PID_den(pid) == Scale * Scale * pid.period

\* (P + I + D + bias) * PID_den(pid) for a given integral sum.
PID_raw(pid, error, integral) ==
      pid.kp * error * pid.period
    + pid.ki * integral * pid.period
    + pid.kd * (error - pid.previous_error)
    + pid.bias * PID_den(pid)

PID_integrate_windup(pid, error) == pid.integral + error * pid.period

\* Step 3 of compute: accumulate error * period, unless the unclamped output
\* is already past a bound and the accumulation pushes further that way.
PID_integrate(pid, error) ==
    LET acc == pid.integral + error * pid.period
        raw == PID_raw(pid, error, acc)
        den == PID_den(pid)
    IN  IF \/ (raw > pid.max_output * den /\ pid.ki * error > 0)
           \/ (raw < pid.min_output * den /\ pid.ki * error < 0)
        THEN pid.integral
        ELSE acc

\* compute(desired, actual): the new controller state and the integer output.
PID_compute(pid, desired, actual) ==
    LET error    == desired - actual
        integral == PID_integrate(pid, error)
        den      == PID_den(pid)
        raw      == PID_raw(pid, error, integral)
        clamped  == Clamp(raw, pid.min_output * den, pid.max_output * den)
        output   == RoundHalfAway(clamped, den)
    IN  [pid    |-> [pid EXCEPT !.integral = integral,
                                !.previous_error = error,
                                !.previous_output = output],
         output |-> output]

-----------------------------------------------------------------------------
(* Configurations and message values explored *)

\* Per-axis (kp, ki, kd, min_output, max_output, bias); gains in tenths.
AxisConfigs ==
    { [kp |-> 20, ki |-> 0, kd |-> 0, min_output |-> -100, max_output |-> 100, bias |-> 0],
      [kp |-> 5,  ki |-> 1, kd |-> 10, min_output |-> -30, max_output |-> 30, bias |-> 1] }

SpeedConfig ==
    [kp |-> 10, ki |-> 0, kd |-> 0, min_output |-> 0, max_output |-> 100, bias |-> 0]

\* (trim_ratio, top/right/left_fin_offset) of PIDControl, in tenths.
MixConfigs ==
    { [trim_ratio |-> 0, top_fin_offset |-> 0, right_fin_offset |-> 0, left_fin_offset |-> 0],
      [trim_ratio |-> 5, top_fin_offset |-> 3, right_fin_offset |-> -3, left_fin_offset |-> 5] }

\* magnetic_declination of CougControls, in tenths (default 10.7).
Declinations == {107}

TimerPeriods == {DefaultTimerPeriod}

DesiredDepthValues == {30, 50}

DesiredHeadingValues == {-450, 900}

DesiredSpeedValues == {-15, 25}

\* pose.pose.position.z of depth_data, positive up (tenths).
DepthZValues == {-1000, -30}

\* int16 attitude_yaw, tenths of a degree.
AttitudeYawValues == {-450, 1800}

MsgIds == {STATUS_MSG_ID, 66}

NoTick ==
    [ran |-> FALSE, stale |-> FALSE,
     depth_args |-> <<0, 0>>, heading_args |-> <<0, 0>>,
     depth_pos |-> 0, heading_pos |-> 0, velocity_level |-> 0]

NoneDelivered ==
    [init |-> 0,
     desired_depth |-> NoMsg, desired_heading |-> NoMsg, desired_speed |-> NoMsg,
     depth_data |-> NoMsg, modem |-> NoMsg, status |-> NoMsg,
     at_init |-> NoMsg]

Calibrated(c, period) ==
    PID_calibrate(c.kp, c.ki, c.kd, c.min_output, c.max_output, period, c.bias)

-----------------------------------------------------------------------------
(* Construction *)

\* Field defaults shared by the observation variables.
ObservationInit ==
    /\ control_command = NoCommand
    /\ n_published = 0
    /\ ticks = 0
    /\ running_ticks = 0
    /\ compute_calls = [depth |-> 0, heading |-> 0, velocity |-> 0]
    /\ tick_log = NoTick
    /\ delivered = NoneDelivered
    /\ fresh = FALSE
    /\ msgs = 0

\* The (kp, ki, kd, min_output, max_output, bias) a controller holds.
AxisOf(pid) ==
    [kp |-> pid.kp, ki |-> pid.ki, kd |-> pid.kd,
     min_output |-> pid.min_output, max_output |-> pid.max_output,
     bias |-> pid.bias]

\* The record of a construction that ran to its end: every controller
\* calibrated once, the executor not inside any callback.
Constructed ==
    /\ startup = [phase |-> "spinning",
                  calibrate_calls |->
                      [depth |-> 1, heading |-> 1,
                       velocity |-> IF node = "PIDControl" THEN 1 ELSE 0],
                  requested |-> <<[depth |-> AxisOf(myDepthPID),
                                   heading |-> AxisOf(myHeadingPID),
                                   period |-> parameters.timer_period]>>]
    /\ pc = NotInTick
    /\ bench = NoBench
    /\ stamps = NoStamps

\* The member initialisers of PIDControl.
PIDControl_members ==
    /\ init_flag = FALSE
    /\ desired_depth = 0
    /\ desired_heading = 0
    /\ desired_speed = 0
    /\ yaw = 0
    /\ x_velocity = 0
    /\ depth = 0

CougControls_members_declined ==
    /\ init_flag = FALSE
    /\ desired_depth = 0
    /\ desired_heading = 0
    /\ desired_speed = 0
    /\ actual_depth = 0
    /\ actual_heading = magnetic_declination

\* The member initialisers of CougControls.
CougControls_members ==
    /\ init_flag = FALSE
    /\ desired_depth = 0
    /\ desired_heading = 0
    /\ desired_speed = 0
    /\ actual_depth = 0
    /\ actual_heading = 0

\* PIDControl::PIDControl: parameters, calibration of the three controllers.
PIDControl_Init ==
    /\ node = "PIDControl"
    /\ \E mix \in MixConfigs, period \in TimerPeriods :
          parameters = [trim_ratio |-> mix.trim_ratio,
                        top_fin_offset |-> mix.top_fin_offset,
                        right_fin_offset |-> mix.right_fin_offset,
                        left_fin_offset |-> mix.left_fin_offset,
                        timer_period |-> period]
    /\ \E dc \in AxisConfigs : myDepthPID = Calibrated(dc, parameters.timer_period)
    /\ \E hc \in AxisConfigs : myHeadingPID = Calibrated(hc, parameters.timer_period)
    /\ myVelocityPID = Calibrated(SpeedConfig, parameters.timer_period)
    /\ PIDControl_members
    /\ actual_depth = 0
    /\ actual_heading = 0
    /\ magnetic_declination = 0
    /\ ObservationInit
    /\ Constructed

\* CougControls::CougControls: parameters, calibration of the two controllers.
\* The node declares no trim or fin-offset parameter and has no velocity PID.
CougControls_Init ==
    /\ node = "CougControls"
    /\ \E period \in TimerPeriods :
          parameters = [trim_ratio |-> 0, top_fin_offset |-> 0,
                        right_fin_offset |-> 0, left_fin_offset |-> 0,
                        timer_period |-> period]
    /\ magnetic_declination \in Declinations
    /\ \E dc \in AxisConfigs : myDepthPID = Calibrated(dc, parameters.timer_period)
    /\ \E hc \in AxisConfigs : myHeadingPID = Calibrated(hc, parameters.timer_period)
    /\ myVelocityPID = NoPID
    /\ CougControls_members
    /\ yaw = 0
    /\ x_velocity = 0
    /\ depth = 0
    /\ ObservationInit
    /\ Constructed

Init ==
    /\ PIDControl_Init \/ CougControls_Init
    /\ pair = NoPair

-----------------------------------------------------------------------------
(* Callbacks.  The executor runs one callback to completion at a time. *)

\* The inbound channels whose last message a tick reads.
InputChannels ==
    {"desired_depth", "desired_heading", "desired_speed", "depth_data", "status"}

\* Bookkeeping of an inbound message on `channel` carrying `value`.
Deliver(channel, value) ==
    /\ msgs < MaxMsgs
    /\ msgs' = msgs + 1
    /\ delivered' = [delivered EXCEPT ![channel] = <<value>>]
    /\ fresh' = TRUE

\* Bookkeeping of an inbound modem message.
DeliverModem(m) ==
    /\ msgs < MaxMsgs
    /\ msgs' = msgs + 1
    /\ delivered' = [delivered EXCEPT !.modem = <<m>>,
                                      !.status = IF m.msg_id = STATUS_MSG_ID THEN <<m>> ELSE @]
    /\ fresh' = TRUE

\* Bookkeeping of an init message.
DeliverInit ==
    /\ msgs < MaxMsgs
    /\ msgs' = msgs + 1
    /\ delivered' = [delivered EXCEPT
                        !.init = @ + 1,
                        !.at_init = IF init_flag THEN @
                                    ELSE <<[c \in InputChannels |-> delivered[c]]>>]
    /\ UNCHANGED fresh

\* Bookkeeping of a timer expiry.
Tick ==
    /\ ticks < MaxTicks
    /\ ticks' = ticks + 1
    /\ running_ticks' = IF init_flag THEN running_ticks + 1 ELSE running_ticks
    /\ fresh' = FALSE
    /\ UNCHANGED <<delivered, msgs>>

tickVars == <<ticks, running_ticks, compute_calls, tick_log>>

\* What no callback other than the timer touches.
NoTick_Unchanged == UNCHANGED <<configVars, pidVars, outputVars, tickVars>>

(* ---- PIDControl ---- *)

PIDControl_init_callback_toggle ==
    /\ node = "PIDControl"
    /\ DeliverInit
    /\ init_flag' = ~init_flag
    /\ UNCHANGED inputVars
    /\ NoTick_Unchanged

PIDControl_init_callback ==
    /\ node = "PIDControl"
    /\ DeliverInit
    /\ init_flag' = TRUE
    /\ UNCHANGED inputVars
    /\ NoTick_Unchanged

PIDControl_desired_depth_callback ==
    /\ node = "PIDControl"
    /\ \E v \in DesiredDepthValues :
          /\ desired_depth' = v
          /\ Deliver("desired_depth", v)
    /\ UNCHANGED <<init_flag, desired_heading, desired_speed, depth, yaw,
                   x_velocity, actual_depth, actual_heading>>
    /\ NoTick_Unchanged

PIDControl_desired_heading_callback ==
    /\ node = "PIDControl"
    /\ \E v \in DesiredHeadingValues :
          /\ desired_heading' = v
          /\ Deliver("desired_heading", v)
    /\ UNCHANGED <<init_flag, desired_depth, desired_speed, depth, yaw,
                   x_velocity, actual_depth, actual_heading>>
    /\ NoTick_Unchanged

PIDControl_desired_speed_callback ==
    /\ node = "PIDControl"
    /\ \E v \in DesiredSpeedValues :
          /\ desired_speed' = v
          /\ Deliver("desired_speed", v)
    /\ UNCHANGED <<init_flag, desired_depth, desired_heading, depth, yaw,
                   x_velocity, actual_depth, actual_heading>>
    /\ NoTick_Unchanged

PIDControl_depth_callback_computes ==
    /\ node = "PIDControl"
    /\ \E z \in DepthZValues :
          /\ depth' = z
          /\ Deliver("depth_data", z)
          /\ myDepthPID' = PID_compute(myDepthPID, desired_depth, -z).pid
    /\ compute_calls' = [compute_calls EXCEPT !.depth = @ + 1]
    /\ UNCHANGED <<init_flag, desired_depth, desired_heading, desired_speed, yaw,
                   x_velocity, actual_depth, actual_heading>>
    /\ UNCHANGED <<configVars, myHeadingPID, myVelocityPID, outputVars, ticks,
                   running_ticks, tick_log>>

PIDControl_depth_callback ==
    /\ node = "PIDControl"
    /\ \E z \in DepthZValues :
          /\ depth' = z
          /\ Deliver("depth_data", z)
    /\ UNCHANGED <<init_flag, desired_depth, desired_heading, desired_speed, yaw,
                   x_velocity, actual_depth, actual_heading>>
    /\ NoTick_Unchanged

\* modem_rec: only a status report (msg_id == 0x10) is taken; the int16
\* attitude_yaw is stored in the float as it is (no scaling).
PIDControl_yaw_callback_unfiltered ==
    /\ node = "PIDControl"
    /\ \E id \in MsgIds, y \in AttitudeYawValues :
          /\ yaw' = y * Scale
          /\ DeliverModem([msg_id |-> id, attitude_yaw |-> y])
    /\ UNCHANGED <<init_flag, desired_depth, desired_heading, desired_speed, depth,
                   x_velocity, actual_depth, actual_heading>>
    /\ NoTick_Unchanged

PIDControl_yaw_callback ==
    /\ node = "PIDControl"
    /\ \E id \in MsgIds, y \in AttitudeYawValues :
          /\ yaw' = IF id = STATUS_MSG_ID THEN y * Scale ELSE yaw
          /\ DeliverModem([msg_id |-> id, attitude_yaw |-> y])
    /\ UNCHANGED <<init_flag, desired_depth, desired_heading, desired_speed, depth,
                   x_velocity, actual_depth, actual_heading>>
    /\ NoTick_Unchanged

PIDControl_fin_floor(pos, velocity_level, offset) ==
    (pos * Scale + parameters.trim_ratio * velocity_level + offset) \div Scale

\* The value stored in an integer fin field from the double expression
\* pos + trim_ratio * velocity_level + offset.
PIDControl_fin_clamped(pos, velocity_level, offset) ==
    Clamp(FloatToInt(pos * Scale + parameters.trim_ratio * velocity_level + offset),
          myHeadingPID.min_output, myHeadingPID.max_output)

PIDControl_fin_nearest(pos, velocity_level, offset) ==
    RoundHalfAway(pos * Scale + parameters.trim_ratio * velocity_level + offset,
                  Scale)

PIDControl_fin(pos, velocity_level, offset) ==
    FloatToInt(pos * Scale + parameters.trim_ratio * velocity_level + offset)

PIDControl_velocity_level_pid ==
    PID_compute(myVelocityPID, desired_speed, x_velocity).output

\* int velocity_level = this->desired_speed;
PIDControl_velocity_level ==
    FloatToInt(desired_speed)

\* The UCommand message of PIDControl::timer_callback.
PIDControl_message(depth_pos, heading_pos, velocity_level) ==
    [fin |-> [i \in 0..2 |->
                CASE i = 0 -> PIDControl_fin(heading_pos, velocity_level,
                                             parameters.top_fin_offset)
                  [] i = 1 -> PIDControl_fin(depth_pos, velocity_level,
                                             parameters.right_fin_offset)
                  [] i = 2 -> PIDControl_fin(depth_pos, velocity_level,
                                             parameters.left_fin_offset)],
     thruster |-> velocity_level]

\* The body of `if (this->init_flag)`: both computes, the mixing, the publish.
PIDControl_control ==
    LET d == PID_compute(myDepthPID, desired_depth, -depth)
        h == PID_compute(myHeadingPID, desired_heading, yaw)
        depth_pos == d.output
        heading_pos == h.output
        velocity_level == PIDControl_velocity_level
    IN  /\ myDepthPID' = d.pid
        /\ myHeadingPID' = h.pid
        /\ UNCHANGED myVelocityPID
        /\ compute_calls' = [compute_calls EXCEPT !.depth = @ + 1,
                                                  !.heading = @ + 1]
        /\ control_command' =
             PIDControl_message(depth_pos, heading_pos, velocity_level)
        /\ n_published' = n_published + 1
        /\ tick_log' = [ran |-> TRUE, stale |-> ~fresh,
                        depth_args |-> <<desired_depth, -depth>>,
                        heading_args |-> <<desired_heading, yaw>>,
                        depth_pos |-> depth_pos,
                        heading_pos |-> heading_pos,
                        velocity_level |-> velocity_level]

\* A timer expiry that finds the gate closed.
Idle ==
    /\ UNCHANGED <<pidVars, outputVars, compute_calls>>
    /\ tick_log' = [NoTick EXCEPT !.stale = ~fresh]

PIDControl_timer_callback_ungated ==
    /\ node = "PIDControl"
    /\ Tick
    /\ PIDControl_control
    /\ UNCHANGED <<configVars, init_flag, inputVars>>

PIDControl_timer_callback_skip_stale ==
    /\ node = "PIDControl"
    /\ Tick
    /\ IF init_flag /\ fresh THEN PIDControl_control ELSE Idle
    /\ UNCHANGED <<configVars, init_flag, inputVars>>

PIDControl_timer_callback ==
    /\ node = "PIDControl"
    /\ Tick
    /\ IF init_flag THEN PIDControl_control ELSE Idle
    /\ UNCHANGED <<configVars, init_flag, inputVars>>

(* ---- CougControls ---- *)

CougControls_init_callback ==
    /\ node = "CougControls"
    /\ DeliverInit
    /\ init_flag' = TRUE
    /\ UNCHANGED inputVars
    /\ NoTick_Unchanged

CougControls_desired_depth_callback_gated ==
    /\ node = "CougControls"
    /\ \E v \in DesiredDepthValues :
          /\ desired_depth' = IF init_flag THEN v ELSE desired_depth
          /\ Deliver("desired_depth", v)
    /\ UNCHANGED <<init_flag, desired_heading, desired_speed, depth, yaw,
                   x_velocity, actual_depth, actual_heading>>
    /\ NoTick_Unchanged

CougControls_desired_depth_callback ==
    /\ node = "CougControls"
    /\ \E v \in DesiredDepthValues :
          /\ desired_depth' = v
          /\ Deliver("desired_depth", v)
    /\ UNCHANGED <<init_flag, desired_heading, desired_speed, depth, yaw,
                   x_velocity, actual_depth, actual_heading>>
    /\ NoTick_Unchanged

CougControls_desired_heading_callback_wrong_field ==
    /\ node = "CougControls"
    /\ \E v \in DesiredHeadingValues :
          /\ desired_depth' = v
          /\ Deliver("desired_heading", v)
    /\ UNCHANGED <<init_flag, desired_heading, desired_speed, depth, yaw,
                   x_velocity, actual_depth, actual_heading>>
    /\ NoTick_Unchanged

CougControls_desired_heading_callback ==
    /\ node = "CougControls"
    /\ \E v \in DesiredHeadingValues :
          /\ desired_heading' = v
          /\ Deliver("desired_heading", v)
    /\ UNCHANGED <<init_flag, desired_depth, desired_speed, depth, yaw,
                   x_velocity, actual_depth, actual_heading>>
    /\ NoTick_Unchanged

CougControls_desired_speed_callback ==
    /\ node = "CougControls"
    /\ \E v \in DesiredSpeedValues :
          /\ desired_speed' = v
          /\ Deliver("desired_speed", v)
    /\ UNCHANGED <<init_flag, desired_depth, desired_heading, depth, yaw,
                   x_velocity, actual_depth, actual_heading>>
    /\ NoTick_Unchanged

CougControls_actual_depth_callback_inverted ==
    /\ node = "CougControls"
    /\ \E z \in DepthZValues :
          /\ actual_depth' = -z
          /\ Deliver("depth_data", z)
    /\ UNCHANGED <<init_flag, desired_depth, desired_heading, desired_speed, depth,
                   yaw, x_velocity, actual_heading>>
    /\ NoTick_Unchanged

CougControls_actual_depth_callback ==
    /\ node = "CougControls"
    /\ \E z \in DepthZValues :
          /\ actual_depth' = z
          /\ Deliver("depth_data", z)
    /\ UNCHANGED <<init_flag, desired_depth, desired_heading, desired_speed, depth,
                   yaw, x_velocity, actual_heading>>
    /\ NoTick_Unchanged

\* modem_status: every message is a status report; the yaw is scaled by 0.1
\* and the magnetic declination is added.
CougControls_actual_heading_callback ==
    /\ node = "CougControls"
    /\ \E y \in AttitudeYawValues :
          /\ actual_heading' = y + magnetic_declination
          /\ DeliverModem([msg_id |-> STATUS_MSG_ID, attitude_yaw |-> y])
    /\ UNCHANGED <<init_flag, desired_depth, desired_heading, desired_speed, depth,
                   yaw, x_velocity, actual_depth>>
    /\ NoTick_Unchanged

\* The UCommand message of CougControls::timer_callback.
CougControls_message(depth_pos, heading_pos, thruster) ==
    [fin |-> [i \in 0..2 |->
                CASE i = 0 -> heading_pos
                  [] i = 1 -> -1 * depth_pos
                  [] i = 2 -> depth_pos],
     thruster |-> thruster]

\* The body of `if (this->init_flag)`: both computes, the mixing, the publish.
CougControls_control ==
    LET d == PID_compute(myDepthPID, desired_depth, -actual_depth)
        h == PID_compute(myHeadingPID, desired_heading, actual_heading)
        depth_pos == d.output
        heading_pos == h.output
        thruster == FloatToInt(desired_speed)
    IN  /\ myDepthPID' = d.pid
        /\ myHeadingPID' = h.pid
        /\ UNCHANGED myVelocityPID
        /\ compute_calls' = [compute_calls EXCEPT !.depth = @ + 1,
                                                  !.heading = @ + 1]
        /\ control_command' =
             CougControls_message(depth_pos, heading_pos, thruster)
        /\ n_published' = n_published + 1
        /\ tick_log' = [ran |-> TRUE, stale |-> ~fresh,
                        depth_args |-> <<desired_depth, -actual_depth>>,
                        heading_args |-> <<desired_heading, actual_heading>>,
                        depth_pos |-> depth_pos,
                        heading_pos |-> heading_pos,
                        velocity_level |-> thruster]

\* The computes moved in front of the gate; only the publish stays behind it.
CougControls_timer_callback_compute_early ==
    /\ node = "CougControls"
    /\ Tick
    /\ IF init_flag
       THEN CougControls_control
       ELSE /\ myDepthPID' = PID_compute(myDepthPID, desired_depth, -actual_depth).pid
            /\ myHeadingPID' = PID_compute(myHeadingPID, desired_heading, actual_heading).pid
            /\ compute_calls' = [compute_calls EXCEPT !.depth = @ + 1,
                                                      !.heading = @ + 1]
            /\ tick_log' = [NoTick EXCEPT !.stale = ~fresh]
            /\ UNCHANGED <<myVelocityPID, outputVars>>
    /\ UNCHANGED <<configVars, init_flag, inputVars>>

CougControls_timer_callback ==
    /\ node = "CougControls"
    /\ Tick
    /\ IF init_flag THEN CougControls_control ELSE Idle
    /\ UNCHANGED <<configVars, init_flag, inputVars>>

-----------------------------------------------------------------------------

Next ==
    \/ PIDControl_init_callback
    \/ PIDControl_desired_depth_callback
    \/ PIDControl_desired_heading_callback
    \/ PIDControl_desired_speed_callback
    \/ PIDControl_depth_callback
    \/ PIDControl_yaw_callback
    \/ PIDControl_timer_callback
    \/ CougControls_init_callback
    \/ CougControls_desired_depth_callback
    \/ CougControls_desired_heading_callback
    \/ CougControls_desired_speed_callback
    \/ CougControls_actual_depth_callback
    \/ CougControls_actual_heading_callback
    \/ CougControls_timer_callback

Spec == Init /\ [][Next]_vars

\* ---------------------------------------------------------------------------
\* Construction, step by step.  Spec starts from a node whose constructor ran
\* to its end; StartupSpec starts before the constructor runs and lets it meet
\* configurations the PID class refuses.
\* ---------------------------------------------------------------------------

\* Timer periods and axis configurations a parameter file can hold, the
\* misconfigured ones included.
StartupPeriods == TimerPeriods \cup {0}

StartupAxisConfigs ==
    AxisConfigs \cup
        {[kp |-> 20, ki |-> 0, kd |-> 0, min_output |-> 30, max_output |-> -30,
          bias |-> 0]}

\* A default-constructed PID: zero gains, zero bounds, zero state.
PID_new == PID_calibrate(0, 0, 0, 0, 0, 0, 0)

\* PID::calibrate refuses a non-positive period and crossed output bounds.
PID_rejects_nothing(min_output, max_output, period) == FALSE

PID_rejects(min_output, max_output, period) ==
    period <= 0 \/ min_output > max_output

NotStarted ==
    [phase |-> "constructing",
     calibrate_calls |-> [depth |-> 0, heading |-> 0, velocity |-> 0],
     requested |-> <<>>]

\* The process before main constructs the node: members at their
\* initialisers, controllers default-constructed.
StartupInit ==
    /\ node \in Nodes
    /\ parameters = [trim_ratio |-> 0, top_fin_offset |-> 0,
                     right_fin_offset |-> 0, left_fin_offset |-> 0,
                     timer_period |-> 0]
    /\ magnetic_declination = 0
    /\ myDepthPID = PID_new
    /\ myHeadingPID = PID_new
    /\ myVelocityPID = IF node = "PIDControl" THEN PID_new ELSE NoPID
    /\ init_flag = FALSE
    /\ desired_depth = 0
    /\ desired_heading = 0
    /\ desired_speed = 0
    /\ depth = 0
    /\ yaw = 0
    /\ x_velocity = 0
    /\ actual_depth = 0
    /\ actual_heading = 0
    /\ ObservationInit
    /\ startup = NotStarted
    /\ pc = NotInTick
    /\ bench = NoBench
    /\ pair = NoPair
    /\ stamps = NoStamps

\* What the calibrate calls of a constructor leave behind: the calls are made
\* in the order depth, heading, velocity, and the first refused one ends the
\* process.
CalibrateAll(dc, hc, period, has_velocity) ==
    LET ok(c) == ~PID_rejects(c.min_output, c.max_output, period)
        d_ok  == ok(dc)
        h_ok  == d_ok /\ ok(hc)
        v_ok  == h_ok /\ (has_velocity => ok(SpeedConfig))
    IN  /\ myDepthPID' = IF d_ok THEN Calibrated(dc, period) ELSE myDepthPID
        /\ myHeadingPID' = IF h_ok THEN Calibrated(hc, period) ELSE myHeadingPID
        /\ myVelocityPID' = IF has_velocity /\ v_ok
                               THEN Calibrated(SpeedConfig, period)
                               ELSE myVelocityPID
        /\ startup' = [phase |-> IF v_ok THEN "calibrated" ELSE "halted",
                       calibrate_calls |->
                           [depth |-> 1,
                            heading |-> IF d_ok THEN 1 ELSE 0,
                            velocity |-> IF has_velocity /\ h_ok THEN 1 ELSE 0],
                       requested |-> <<[depth |-> dc, heading |-> hc,
                                        period |-> period]>>]

\* PIDControl::PIDControl, first half: declare and read the parameters,
\* calibrate the depth, heading and velocity controllers.
PIDControl_constructor_calibrate ==
    /\ node = "PIDControl"
    /\ startup.phase = "constructing"
    /\ \E mix \in MixConfigs, period \in StartupPeriods,
          dc \in StartupAxisConfigs, hc \in StartupAxisConfigs :
          /\ parameters' = [trim_ratio |-> mix.trim_ratio,
                            top_fin_offset |-> mix.top_fin_offset,
                            right_fin_offset |-> mix.right_fin_offset,
                            left_fin_offset |-> mix.left_fin_offset,
                            timer_period |-> period]
          /\ CalibrateAll(dc, hc, period, TRUE)
    /\ UNCHANGED <<node, magnetic_declination, pc, bench, pair, stamps, init_flag, inputVars,
                   outputVars, tickVars, delivered, fresh, msgs>>

\* PIDControl::PIDControl, second half: publisher, subscriptions, timer; main
\* then spins the node.
PIDControl_constructor_wire_uncalibrated ==
    /\ node = "PIDControl"
    /\ startup.phase = "constructing"
    /\ startup' = [startup EXCEPT !.phase = "spinning"]
    /\ UNCHANGED <<node, parameters, magnetic_declination, pc, bench, pair, stamps,
                   init_flag, inputVars, pidVars, outputVars, tickVars,
                   delivered, fresh, msgs>>

PIDControl_constructor_wire ==
    /\ node = "PIDControl"
    /\ startup.phase = "calibrated"
    /\ startup' = [startup EXCEPT !.phase = "spinning"]
    /\ UNCHANGED <<node, parameters, magnetic_declination, pc, bench, pair, stamps,
                   init_flag, inputVars, pidVars, outputVars, tickVars,
                   delivered, fresh, msgs>>

\* CougControls::CougControls, first half: declare and read the parameters,
\* calibrate the depth and heading controllers.
CougControls_constructor_calibrate ==
    /\ node = "CougControls"
    /\ startup.phase = "constructing"
    /\ \E period \in StartupPeriods, decl \in Declinations,
          dc \in StartupAxisConfigs, hc \in StartupAxisConfigs :
          /\ parameters' = [parameters EXCEPT !.timer_period = period]
          /\ magnetic_declination' = decl
          /\ CalibrateAll(dc, hc, period, FALSE)
    /\ UNCHANGED <<node, pc, bench, pair, stamps, init_flag, inputVars, outputVars,
                   tickVars, delivered, fresh, msgs>>

\* CougControls::CougControls, second half: publisher, subscriptions, timer;
\* main then spins the node.
CougControls_constructor_wire ==
    /\ node = "CougControls"
    /\ startup.phase = "calibrated"
    /\ startup' = [startup EXCEPT !.phase = "spinning"]
    /\ UNCHANGED <<node, parameters, magnetic_declination, pc, bench, pair, stamps,
                   init_flag, inputVars, pidVars, outputVars, tickVars,
                   delivered, fresh, msgs>>

\* rclcpp::spin delivers callbacks only once the node is constructed.
Spinning == startup.phase = "spinning"

StartupNext ==
    \/ PIDControl_constructor_calibrate
    \/ PIDControl_constructor_wire
    \/ CougControls_constructor_calibrate
    \/ CougControls_constructor_wire
    \/ (Spinning /\ Next)

StartupSpec == StartupInit /\ [][StartupNext]_vars

\* The wall timer keeps expiring and the executor keeps serving it: a timer
\* callback that stays enabled is eventually run.
TimerFairness ==
    /\ WF_vars(PIDControl_timer_callback)
    /\ WF_vars(CougControls_timer_callback)

\* Whether a command is published does not depend on the gains or the fin
\* offsets; the fair specification starts from one configuration per node.
LiveInit ==
    /\ Init
    /\ parameters.trim_ratio = 0
    /\ myDepthPID.ki = 1
    /\ myHeadingPID.ki = 0

LiveSpec == LiveInit /\ [][Next]_vars /\ TimerFairness

\* ---------------------------------------------------------------------------
\* The held-error experiment: the depth controller of a running CougControls
\* is given the same positive error tick after tick, then a zero error.
\* ---------------------------------------------------------------------------

\* How many ticks the error is held, and how many zero-error ticks follow.
MaxHold == 5

MaxRelease == 3

\* Controllers with an integral gain; gains in tenths.
BenchConfigs ==
    {[kp |-> 5,  ki |-> 1, kd |-> 10, min_output |-> -30,  max_output |-> 30,  bias |-> 1],
     [kp |-> 0,  ki |-> 2, kd |-> 0,  min_output |-> -100, max_output |-> 100, bias |-> 0],
     [kp |-> 20, ki |-> 1, kd |-> 0,  min_output |-> -50,  max_output |-> 50,  bias |-> -2]}

\* The held errors, tenths.
BenchErrors == {30, 300, 600}

BenchInit ==
    /\ node = "CougControls"
    /\ parameters = [trim_ratio |-> 0, top_fin_offset |-> 0,
                     right_fin_offset |-> 0, left_fin_offset |-> 0,
                     timer_period |-> DefaultTimerPeriod]
    /\ magnetic_declination \in Declinations
    /\ \E c \in BenchConfigs : myDepthPID = Calibrated(c, parameters.timer_period)
    /\ myHeadingPID = Calibrated(CHOOSE c \in AxisConfigs : c.ki = 0,
                                 parameters.timer_period)
    /\ myVelocityPID = NoPID
    /\ CougControls_members
    /\ yaw = 0
    /\ x_velocity = 0
    /\ depth = 0
    /\ ObservationInit
    /\ startup = [phase |-> "spinning",
                  calibrate_calls |-> [depth |-> 1, heading |-> 1, velocity |-> 0],
                  requested |-> <<[depth |-> AxisOf(myDepthPID),
                                   heading |-> AxisOf(myHeadingPID),
                                   period |-> parameters.timer_period]>>]
    /\ pc = NotInTick
    /\ \E e \in BenchErrors : bench = [NoBench EXCEPT !.error = e]
    /\ pair = NoPair
    /\ stamps = NoStamps

BenchUnchanged ==
    UNCHANGED <<node, parameters, magnetic_declination, startup, pc, pair,
                stamps, init_flag, inputVars, myHeadingPID, myVelocityPID, outputVars, tickVars,
                delivered, fresh, msgs>>

\* One tick's compute call on the depth controller, the error held.
BenchHold ==
    /\ bench.released = 0
    /\ bench.held < MaxHold
    /\ LET r == PID_compute(myDepthPID, bench.error, 0)
       IN  /\ myDepthPID' = r.pid
           /\ bench' = [bench EXCEPT
                            !.held = @ + 1,
                            !.saturated = IF r.output = myDepthPID.max_output
                                             THEN @ + 1 ELSE @,
                            !.output = r.output]
    /\ BenchUnchanged

\* One tick's compute call on the depth controller, desired equal to actual.
BenchRelease ==
    /\ bench.held >= 1
    /\ bench.released < MaxRelease
    /\ LET r == PID_compute(myDepthPID, 0, 0)
       IN  /\ myDepthPID' = r.pid
           /\ bench' = [bench EXCEPT !.released = @ + 1, !.output = r.output]
    /\ BenchUnchanged

BenchNext == BenchHold \/ BenchRelease

BenchSpec == BenchInit /\ [][BenchNext]_vars

-----------------------------------------------------------------------------
(* Properties *)

\* A step that is one execution of timer_callback.
TimerStep == ticks' = ticks + 1

\* A step that is one execution of init_callback.
InitStep == delivered'.init = delivered.init + 1

\* The value last delivered on a channel, or the field default 0.
LastOr0(channel) ==
    IF delivered[channel] = NoMsg THEN 0 ELSE delivered[channel][1]

\* The measured heading a node derives from a modem message.
HeadingOf(m) ==
    IF m = NoMsg THEN 0
    ELSE IF node = "PIDControl" THEN m[1].attitude_yaw * Scale
         ELSE m[1].attitude_yaw + magnetic_declination

NoInputDelivered ==
    /\ delivered.desired_depth = NoMsg
    /\ delivered.desired_heading = NoMsg
    /\ delivered.desired_speed = NoMsg
    /\ delivered.depth_data = NoMsg
    /\ delivered.modem = NoMsg

\* C1: a timer tick that runs while init_flag is false publishes no command
\* on control_command (in both nodes).
C1_NoCommandBeforeInit ==
    [][(TimerStep /\ ~init_flag) =>
          (n_published' = n_published /\ control_command' = control_command)]_vars

C1_Witness ==
    /\ ~init_flag
    /\ ticks >= 2
    /\ ~fresh
    /\ delivered.desired_depth # NoMsg

\* C2: init_flag starts false, the first init message sets it, nothing ever
\* clears it, and a further init message changes neither the inputs, the PID
\* state nor the output.
C2_GateMonotone ==
    [][/\ (delivered.init = 0 => ~init_flag)
       /\ (init_flag => init_flag')
       /\ (InitStep => init_flag')
       /\ (InitStep /\ init_flag =>
              UNCHANGED <<inputVars, pidVars, outputVars, compute_calls>>)]_vars

C2_Witness ==
    /\ delivered.init >= 2
    /\ init_flag
    /\ running_ticks >= 1
    /\ delivered.desired_speed # NoMsg

\* C3: the number of published commands equals the number of timer ticks
\* executed while init_flag was true.
C3_OneCommandPerRunningTick ==
    n_published = running_ticks

C3_Witness ==
    /\ running_ticks >= 2
    /\ ticks > running_ticks
    /\ tick_log.stale

\* C4: as long as no tick has run with init_flag true, no compute was called
\* and both controllers are in the state calibrate left them in.
C4_PreInitTicksLeavePID ==
    running_ticks = 0 =>
        /\ compute_calls = [depth |-> 0, heading |-> 0, velocity |-> 0]
        /\ \A pid \in {myDepthPID, myHeadingPID} :
              /\ pid.integral = 0
              /\ pid.previous_error = 0
              /\ pid.previous_output = 0

C4_Witness ==
    /\ running_ticks = 0
    /\ ticks >= 2
    /\ desired_depth # 0
    /\ node = "CougControls" => actual_heading # 0
    /\ node = "PIDControl" => yaw # 0

\* C5: with min_output <= max_output and period > 0, the depth_pos and
\* heading_pos of every RUNNING tick lie within their axis bounds.
C5_OutputsWithinBounds ==
    (/\ tick_log.ran
     /\ \A pid \in {myDepthPID, myHeadingPID} :
           pid.min_output <= pid.max_output /\ pid.period > 0) =>
        /\ myDepthPID.min_output <= tick_log.depth_pos
        /\ tick_log.depth_pos <= myDepthPID.max_output
        /\ myHeadingPID.min_output <= tick_log.heading_pos
        /\ tick_log.heading_pos <= myHeadingPID.max_output

\* A tick whose depth error alone drives the raw output below min_output.
C5_Witness ==
    /\ tick_log.ran
    /\ tick_log.depth_pos = myDepthPID.min_output
    /\ myDepthPID.kp * (tick_log.depth_args[1] - tick_log.depth_args[2])
          < myDepthPID.min_output * Scale * Scale
    /\ tick_log.heading_pos = myHeadingPID.max_output

\* C6: in every emitted command the depth output enters fin[1] and fin[2]
\* with opposing signs.
C6_OpposingDepthFins ==
    n_published > 0 =>
        \E s \in {-1, 1} :
            /\ control_command.fin[1] =
                 FloatToInt(s * tick_log.depth_pos * Scale
                            + parameters.trim_ratio * control_command.thruster
                            + parameters.right_fin_offset)
            /\ control_command.fin[2] =
                 FloatToInt((-s) * tick_log.depth_pos * Scale
                            + parameters.trim_ratio * control_command.thruster
                            + parameters.left_fin_offset)

\* The top-fin sum heading_output + trim_ratio * speed_value + top_fin_offset
\* of the last command, in tenths.
TopFinSum ==
    tick_log.heading_pos * Scale
    + parameters.trim_ratio * control_command.thruster
    + parameters.top_fin_offset

\* C7 as stated: fin[0] equals heading_output + trim_ratio * speed_value +
\* top_fin_offset.
C7_TopFinExact ==
    n_published > 0 => control_command.fin[0] * Scale = TopFinSum

\* C7, amended: fin[0] is heading_output + trim_ratio * speed_value +
\* top_fin_offset with its fractional part discarded (truncated toward zero).
C7_TopFinTruncated ==
    n_published > 0 => control_command.fin[0] = FloatToInt(TopFinSum)

C7_Witness ==
    /\ n_published > 0
    /\ node = "PIDControl"
    /\ control_command.thruster # 0
    /\ TopFinSum < 0
    /\ TopFinSum % Scale # 0

\* C8: the thruster of every emitted command is the last received
\* desired_speed (0 if none) converted to int, and the velocity PID of
\* PIDControl stays as calibrated: its compute is never called.
C8_ThrusterPassThrough ==
    [][/\ (TimerStep /\ init_flag =>
              control_command'.thruster = FloatToInt(LastOr0("desired_speed")))
       /\ compute_calls'.velocity = 0
       /\ myVelocityPID' = myVelocityPID]_vars

C8_Witness ==
    /\ node = "PIDControl"
    /\ n_published > 0
    /\ control_command.thruster = -1
    /\ myVelocityPID.max_output > 0
    /\ compute_calls.depth >= 2

\* What a RUNNING tick that sees no input update since the previous RUNNING
\* tick does: both computes again, on the same arguments, and one publish.
StaleTickRuns ==
    (TimerStep /\ init_flag /\ ~fresh /\ tick_log.ran) =>
        /\ tick_log'.depth_args = tick_log.depth_args
        /\ tick_log'.heading_args = tick_log.heading_args
        /\ control_command'.thruster = control_command.thruster
        /\ compute_calls'.depth = compute_calls.depth + 1
        /\ compute_calls'.heading = compute_calls.heading + 1
        /\ n_published' = n_published + 1

\* C9 as stated: every RUNNING tick computes on values derived from the
\* message most recently delivered on each channel, and a stale tick runs
\* normally.
C9_LatestDelivered ==
    [][/\ (TimerStep /\ init_flag =>
              /\ tick_log'.depth_args =
                    <<LastOr0("desired_depth"), -LastOr0("depth_data")>>
              /\ tick_log'.heading_args =
                    <<LastOr0("desired_heading"), HeadingOf(delivered.modem)>>)
       /\ StaleTickRuns]_vars

\* C9, amended: as stated, except that on the modem channel the measured
\* heading is derived from the most recently delivered message that was a
\* status report (msg_id 0x10); a later non-status modem_rec is ignored.
C9_LatestAccepted ==
    [][/\ (TimerStep /\ init_flag =>
              /\ tick_log'.depth_args =
                    <<LastOr0("desired_depth"), -LastOr0("depth_data")>>
              /\ tick_log'.heading_args =
                    <<LastOr0("desired_heading"), HeadingOf(delivered.status)>>)
       /\ StaleTickRuns]_vars

C9_Witness ==
    /\ tick_log.ran
    /\ tick_log.stale
    /\ running_ticks >= 2
    /\ delivered.modem # NoMsg
    /\ delivered.status # NoMsg
    /\ delivered.modem # delivered.status
    /\ tick_log.heading_args[2] # 0

\* C10: when init arrives before any setpoint or sensor message, the first
\* RUNNING tick computes with desired = 0 and actual = 0 on both axes and
\* publishes thruster = 0.
C10_DefaultsAreZero ==
    [][(TimerStep /\ init_flag /\ running_ticks = 0 /\ NoInputDelivered) =>
          /\ tick_log'.ran
          /\ tick_log'.depth_args = <<0, 0>>
          /\ tick_log'.heading_args = <<0, 0>>
          /\ control_command'.thruster = 0]_vars

C10_Witness ==
    /\ running_ticks = 1
    /\ NoInputDelivered
    /\ n_published > 0
    /\ magnetic_declination # 0

\* The stored depth member of the node (positive up, as depth_data sends it).
StoredDepth ==
    IF node = "PIDControl" THEN depth ELSE actual_depth

\* C11: on every RUNNING tick the measured value given to the depth
\* controller is the negation of the z of the most recent depth_data message;
\* the member itself keeps z as sent.
C11_DepthInverted ==
    [][/\ (delivered.depth_data # NoMsg => StoredDepth = delivered.depth_data[1])
       /\ (TimerStep /\ init_flag /\ delivered.depth_data # NoMsg =>
              tick_log'.depth_args[2] = -delivered.depth_data[1])]_vars

C11_Witness ==
    /\ tick_log.ran
    /\ delivered.depth_data = <<-1000>>
    /\ tick_log.depth_args[2] = 1000

\* C12: in both nodes the measured heading given to the heading controller
\* is attitude_yaw / 10 + magnetic_declination of the most recent accepted
\* modem message (no declination is configured in PIDControl).
C12_HeadingScaled ==
    [][(TimerStep /\ init_flag /\ delivered.status # NoMsg) =>
          tick_log'.heading_args[2] =
              delivered.status[1].attitude_yaw + magnetic_declination]_vars

\* The gains, bounds, period and bias of a controller.
Tunables(pid) ==
    <<pid.kp, pid.ki, pid.kd, pid.min_output, pid.max_output, pid.period,
      pid.bias>>

\* C13: the depth and the heading controller have each been calibrated exactly
\* once when the timer is created and at every tick, and once the node spins
\* no step (init, input, tick) calls calibrate again or changes a gain, a
\* bound, the period or the bias of a controller.
C13_CalibratedOnceBeforeCompute ==
    [][/\ (Spinning \/ TimerStep) =>
              /\ startup.calibrate_calls.depth = 1
              /\ startup.calibrate_calls.heading = 1
       /\ Spinning =>
              /\ startup' = startup
              /\ Tunables(myDepthPID') = Tunables(myDepthPID)
              /\ Tunables(myHeadingPID') = Tunables(myHeadingPID)
              /\ node = "PIDControl" =>
                     Tunables(myVelocityPID') = Tunables(myVelocityPID)]_vars

C13_Witness ==
    /\ Spinning
    /\ startup.calibrate_calls.depth = 1
    /\ startup.calibrate_calls.heading = 1
    /\ compute_calls.depth >= 2
    /\ myDepthPID.previous_error # 0

\* Some axis or the period of the requested configuration is one that
\* calibration refuses.
InvalidRequested ==
    /\ startup.requested # <<>>
    /\ LET q == startup.requested[1]
       IN  \/ q.period <= 0
           \/ q.depth.min_output > q.depth.max_output
           \/ q.heading.min_output > q.heading.max_output

\* C14: a node given a non-positive period, or min_output > max_output on an
\* axis, stops at calibration: it never spins, its gate never opens, it never
\* runs a control cycle and it never publishes a command.
C14_MisconfigurationHalts ==
    InvalidRequested =>
        /\ startup.phase \in {"constructing", "halted"}
        /\ ~init_flag
        /\ ticks = 0
        /\ running_ticks = 0
        /\ n_published = 0

C14_Witness ==
    /\ InvalidRequested
    /\ startup.phase = "halted"
    /\ startup.requested[1].period > 0
    /\ startup.calibrate_calls.heading = 1

\* C15: once init has been delivered and the timer has an expiry left, the
\* timer's expiries all eventually happen, at least one of them with the gate
\* open, and each expiry that found the gate open has published one command,
\* whether or not any setpoint or sensor message arrived.
C15_CommandsKeepComing ==
    (init_flag /\ ticks < MaxTicks)
        ~> (/\ ticks = MaxTicks
            /\ running_ticks >= 1
            /\ n_published = running_ticks)

C15_Witness ==
    /\ init_flag
    /\ NoInputDelivered
    /\ n_published >= 2

\* The integral term plus the bias, times PID_den: what the controller
\* outputs, unclamped, at zero error once the derivative term has died out.
SettledRaw(pid) == pid.ki * pid.integral * pid.period + pid.bias * PID_den(pid)

\* C16: however many ticks a positive error is held, the integral term with
\* the bias never exceeds max_output, and when the held error saturated the
\* output, the second and every later zero-error tick returns the
\* unsaturated value: the clamp no longer acts.
C16_AntiWindup ==
    /\ SettledRaw(myDepthPID) <= myDepthPID.max_output * PID_den(myDepthPID)
    /\ (bench.saturated >= 1 /\ bench.released >= 2) =>
           /\ SettledRaw(myDepthPID) >= myDepthPID.min_output * PID_den(myDepthPID)
           /\ bench.output = RoundHalfAway(SettledRaw(myDepthPID), PID_den(myDepthPID))

C16_Witness ==
    /\ bench.saturated >= 3
    /\ bench.released = 2
    /\ bench.output < myDepthPID.max_output

\* An axis with no integral gain, no derivative gain and no bias.
ProportionalOnly(pid) == pid.ki = 0 /\ pid.kd = 0 /\ pid.bias = 0

\* out is kp * (desired - actual), limited to the output bounds and no more
\* than one half away from the exact product.  kp and the arguments are
\* tenths, so the product is in hundredths.
IsProportionalOutput(pid, args, out) ==
    LET x == pid.kp * (args[1] - args[2])
        h == Scale * Scale
    IN  CASE x >= pid.max_output * h -> out = pid.max_output
          [] x <= pid.min_output * h -> out = pid.min_output
          [] OTHER -> /\ 2 * (h * out - x) <= h
                      /\ 2 * (x - h * out) <= h

\* C17: on a proportional-only axis the position of a RUNNING tick is
\* kp * (desired - actual) rounded to the nearest integer and limited to
\* [min_output, max_output]; with kp = 2.0 and bounds [-100, 100], desired 5.0
\* and actual 3.0 give 4, desired 3.0 and actual 100.0 give -100.
C17_ProportionalOnly ==
    tick_log.ran =>
        /\ ProportionalOnly(myDepthPID) =>
               IsProportionalOutput(myDepthPID, tick_log.depth_args,
                                    tick_log.depth_pos)
        /\ ProportionalOnly(myHeadingPID) =>
               IsProportionalOutput(myHeadingPID, tick_log.heading_args,
                                    tick_log.heading_pos)
        /\ (/\ ProportionalOnly(myDepthPID)
            /\ myDepthPID.kp = 20
            /\ myDepthPID.min_output = -100
            /\ myDepthPID.max_output = 100) =>
               /\ tick_log.depth_args = <<50, 30>> => tick_log.depth_pos = 4
               /\ tick_log.depth_args = <<30, 1000>> => tick_log.depth_pos = -100

C17_Witness ==
    /\ tick_log.ran
    /\ ProportionalOnly(myDepthPID)
    /\ myDepthPID.kp = 20
    /\ tick_log.depth_args = <<30, 1000>>
    /\ tick_log.depth_pos = -100

\* The error of a logged compute call.
ErrorOf(args) == args[1] - args[2]

\* C18: at the first RUNNING tick, however many ticks and input messages came
\* before init, neither controller has computed yet and each still has
\* previous_error = 0, so the derivative difference error - previous_error of
\* that compute call is the error itself (D = kd * error / period), and the
\* call leaves the error behind as previous_error.
C18_FirstDerivative ==
    [][(TimerStep /\ init_flag /\ running_ticks = 0) =>
          /\ compute_calls.depth = 0
          /\ compute_calls.heading = 0
          /\ myDepthPID.previous_error = 0
          /\ myHeadingPID.previous_error = 0
          /\ myDepthPID.kd * (ErrorOf(tick_log'.depth_args) - myDepthPID.previous_error)
                 = myDepthPID.kd * ErrorOf(tick_log'.depth_args)
          /\ myDepthPID'.previous_error = ErrorOf(tick_log'.depth_args)
          /\ myHeadingPID'.previous_error = ErrorOf(tick_log'.heading_args)]_vars

C18_Witness ==
    /\ running_ticks = 1
    /\ ticks >= 2
    /\ delivered.desired_depth # NoMsg
    /\ tick_log.ran
    /\ myDepthPID.kd > 0
    /\ myDepthPID.previous_error # 0

\* The heading field of the node: yaw in PIDControl, actual_heading in
\* CougControls.
StoredHeading == IF node = "PIDControl" THEN yaw ELSE actual_heading

\* The Cycle Inputs fields, each under the channel whose callback assigns it.
Written ==
    [desired_depth   |-> desired_depth,
     desired_heading |-> desired_heading,
     desired_speed   |-> desired_speed,
     depth_data      |-> StoredDepth,
     modem           |-> StoredHeading]

\* The input members no callback of the node assigns.
NeverWritten ==
    IF node = "PIDControl" THEN <<x_velocity, actual_depth, actual_heading>>
                           ELSE <<x_velocity, depth, yaw>>

\* A setpoint or sensor message is delivered.
InputStep == msgs' = msgs + 1 /\ ~InitStep

\* C19: the callback of a setpoint or sensor message leaves the init flag and
\* the three controllers unchanged, and changes at most one input field, the
\* one of the channel the message came on; a field never changes on a message
\* of another channel.
C19_SingleWriter ==
    [][InputStep =>
          /\ UNCHANGED <<init_flag, pidVars, outputVars>>
          /\ NeverWritten' = NeverWritten
          /\ \A c \in DOMAIN Written :
                Written'[c] # Written[c] =>
                    /\ IF c = "modem"
                          THEN delivered'.status # NoMsg
                          ELSE delivered'[c] = <<Written'[c]>>
                    /\ \A o \in DOMAIN delivered \ {c, "status"} :
                          delivered'[o] = delivered[o]
                    /\ \A o \in DOMAIN Written \ {c} :
                          Written'[o] = Written[o]]_vars

C19_Witness ==
    /\ delivered.desired_heading # NoMsg
    /\ desired_heading = delivered.desired_heading[1]
    /\ desired_heading # 0
    /\ delivered.status # NoMsg
    /\ StoredHeading # 0
    /\ desired_depth = 0
    /\ desired_speed = 0
    /\ StoredDepth = 0
    /\ ~init_flag

\* ---------------------------------------------------------------------------
\* The timer callback, statement by statement.  Spec runs every callback
\* whole; StepSpec lets the executor be observed inside timer_callback, to
\* examine what could run between two of its statements.
\* ---------------------------------------------------------------------------

ExecutorIdle_multithreaded == TRUE

\* rclcpp::spin(node) serves the node with one single-threaded executor: a
\* callback is taken only when no callback is running.
ExecutorIdle == pc.at = "idle"

\* What the statements of timer_callback leave alone until the publish.
InTick_Unchanged ==
    UNCHANGED <<node, parameters, magnetic_declination, startup, bench, pair,
                init_flag, inputVars, myVelocityPID, delivered, msgs>>

\* this->now(): the node clock, read as the number of statements and
\* callbacks the executor has run; it advances with each of them.
Now == msgs + ticks + compute_calls.depth + compute_calls.heading + n_published

\* message.header.stamp = this->now(); if (this->init_flag)
timer_callback_begin ==
    /\ ExecutorIdle
    /\ Tick
    /\ IF init_flag
          THEN /\ pc' = [NotInTick EXCEPT !.at = "depth", !.stale = ~fresh,
                                          !.snapshot = Written, !.stamp = Now]
               /\ stamps' = [stamps EXCEPT !.began = Now]
               /\ UNCHANGED <<pidVars, outputVars, compute_calls, tick_log>>
          ELSE /\ Idle
               /\ UNCHANGED <<pc, stamps>>
    /\ UNCHANGED <<node, parameters, magnetic_declination, startup, bench,
                   pair, init_flag, inputVars>>

\* int depth_pos = myDepthPID.compute(this->desired_depth, -depth);
timer_callback_depth ==
    /\ pc.at = "depth"
    /\ LET d == PID_compute(myDepthPID, desired_depth, -StoredDepth)
       IN  /\ myDepthPID' = d.pid
           /\ pc' = [pc EXCEPT !.at = "heading",
                               !.depth_args = <<desired_depth, -StoredDepth>>,
                               !.depth_pos = d.output]
    /\ compute_calls' = [compute_calls EXCEPT !.depth = @ + 1]
    /\ InTick_Unchanged
    /\ UNCHANGED <<myHeadingPID, outputVars, ticks, running_ticks, tick_log,
                   fresh, stamps>>

\* int heading_pos = myHeadingPID.compute(this->desired_heading, yaw);
timer_callback_heading ==
    /\ pc.at = "heading"
    /\ LET h == PID_compute(myHeadingPID, desired_heading, StoredHeading)
       IN  /\ myHeadingPID' = h.pid
           /\ pc' = [pc EXCEPT !.at = "publish",
                               !.heading_args = <<desired_heading, StoredHeading>>,
                               !.heading_pos = h.output]
    /\ compute_calls' = [compute_calls EXCEPT !.heading = @ + 1]
    /\ InTick_Unchanged
    /\ UNCHANGED <<myDepthPID, outputVars, ticks, running_ticks, tick_log,
                   fresh, stamps>>

HeaderStamp_at_publish == Now

\* header.stamp of the message handed to publish: the value stored in it by
\* the first statement of the callback.
HeaderStamp == pc.stamp

\* The mixing and the publish; the locals die with the return.
timer_callback_publish ==
    /\ pc.at = "publish"
    /\ LET velocity_level == FloatToInt(desired_speed)
       IN  /\ control_command' =
                IF node = "PIDControl"
                   THEN PIDControl_message(pc.depth_pos, pc.heading_pos,
                                           velocity_level)
                   ELSE CougControls_message(pc.depth_pos, pc.heading_pos,
                                             velocity_level)
           /\ tick_log' = [ran |-> TRUE, stale |-> pc.stale,
                           depth_args |-> pc.depth_args,
                           heading_args |-> pc.heading_args,
                           depth_pos |-> pc.depth_pos,
                           heading_pos |-> pc.heading_pos,
                           velocity_level |-> velocity_level]
    /\ n_published' = n_published + 1
    /\ stamps' = [stamps EXCEPT !.stamp = HeaderStamp,
                                !.previous = stamps.stamp,
                                !.published_at = Now]
    /\ pc' = NotInTick
    /\ InTick_Unchanged
    /\ UNCHANGED <<myDepthPID, myHeadingPID, ticks, running_ticks,
                   compute_calls, fresh>>

\* The init, setpoint and sensor callbacks of the two nodes.
InboundCallback ==
    \/ PIDControl_init_callback
    \/ PIDControl_desired_depth_callback
    \/ PIDControl_desired_heading_callback
    \/ PIDControl_desired_speed_callback
    \/ PIDControl_depth_callback
    \/ PIDControl_yaw_callback
    \/ CougControls_init_callback
    \/ CougControls_desired_depth_callback
    \/ CougControls_desired_heading_callback
    \/ CougControls_desired_speed_callback
    \/ CougControls_actual_depth_callback
    \/ CougControls_actual_heading_callback

StepNext ==
    \/ (ExecutorIdle /\ InboundCallback)
    \/ timer_callback_begin
    \/ timer_callback_depth
    \/ timer_callback_heading
    \/ timer_callback_publish

StepSpec == Init /\ [][StepNext]_vars

\* C20: while the executor is inside a tick no init, setpoint or sensor
\* callback runs, so the init flag and the inputs stay as they were when the
\* tick began; and the tick's depth compute, heading compute and published
\* thruster value all use the inputs as they were at that moment.
C20_OneSnapshotPerTick ==
    [][/\ ~ExecutorIdle =>
              /\ UNCHANGED <<init_flag, inputVars, delivered, msgs>>
              /\ Written = pc.snapshot
       /\ pc.at = "publish" =>
              /\ tick_log'.depth_args =
                     <<pc.snapshot.desired_depth, -pc.snapshot.depth_data>>
              /\ tick_log'.heading_args =
                     <<pc.snapshot.desired_heading, pc.snapshot.modem>>
              /\ control_command'.thruster =
                     FloatToInt(pc.snapshot.desired_speed)]_vars

C20_Witness ==
    /\ tick_log.ran
    /\ pc.at = "heading"
    /\ running_ticks = 2
    /\ msgs = MaxMsgs
    /\ tick_log.depth_args # pc.depth_args

\* ---------------------------------------------------------------------------
\* Three runs of one node side by side.  Run a is the reference; run b
\* receives the same init, depth and speed messages and the same ticks as a
\* but its own heading-axis messages; run c receives the same init, heading
\* and speed messages and ticks as a but its own depth-axis messages.  The
\* callbacks are written as functions of a run's members.
\* ---------------------------------------------------------------------------

\* The members of a freshly constructed node, and the positions and command
\* of its latest tick.
NewRun ==
    [init_flag |-> FALSE,
     desired_depth |-> 0, desired_heading |-> 0, desired_speed |-> 0,
     depth |-> 0, heading |-> 0,
     myDepthPID |-> myDepthPID, myHeadingPID |-> myHeadingPID,
     depth_pos |-> 0, heading_pos |-> 0,
     command |-> NoCommand, n_published |-> 0]

Run_init_callback(r) == [r EXCEPT !.init_flag = TRUE]

Run_desired_depth_callback(r, v) == [r EXCEPT !.desired_depth = v]

Run_desired_heading_callback(r, v) == [r EXCEPT !.desired_heading = v]

Run_desired_speed_callback(r, v) == [r EXCEPT !.desired_speed = v]

\* depth_callback / actual_depth_callback
Run_depth_callback(r, z) == [r EXCEPT !.depth = z]

\* yaw_callback / actual_heading_callback
Run_heading_callback(r, m) ==
    [r EXCEPT !.heading =
        IF node = "PIDControl"
           THEN (IF m.msg_id = STATUS_MSG_ID THEN m.attitude_yaw * Scale ELSE @)
           ELSE m.attitude_yaw + magnetic_declination]

\* int depth_pos = myDepthPID.compute(this->desired_depth, -depth);
Run_compute_depth(r) ==
    LET d == PID_compute(r.myDepthPID, r.desired_depth, -r.depth)
    IN  [r EXCEPT !.myDepthPID = d.pid, !.depth_pos = d.output]

Run_compute_heading_on_depth_pid(r) ==
    LET h == PID_compute(r.myDepthPID, r.desired_heading, r.heading)
    IN  [r EXCEPT !.myDepthPID = h.pid, !.heading_pos = h.output]

\* int heading_pos = myHeadingPID.compute(this->desired_heading, yaw);
Run_compute_heading(r) ==
    LET h == PID_compute(r.myHeadingPID, r.desired_heading, r.heading)
    IN  [r EXCEPT !.myHeadingPID = h.pid, !.heading_pos = h.output]

\* The mixing and the publish.
Run_publish(r) ==
    LET velocity_level == FloatToInt(r.desired_speed)
    IN  [r EXCEPT
            !.command =
                IF node = "PIDControl"
                   THEN PIDControl_message(r.depth_pos, r.heading_pos,
                                           velocity_level)
                   ELSE CougControls_message(r.depth_pos, r.heading_pos,
                                             velocity_level),
            !.n_published = @ + 1]

Run_timer_callback(r) ==
    IF r.init_flag
       THEN Run_publish(Run_compute_heading(Run_compute_depth(r)))
       ELSE r

\* The same tick with the two compute statements exchanged.
Run_timer_callback_heading_first(r) ==
    IF r.init_flag
       THEN Run_publish(Run_compute_depth(Run_compute_heading(r)))
       ELSE r

\* The compared runs start from every pair of axis configurations; PIDControl
\* with the non-zero trim and offsets.
PairInit ==
    /\ PIDControl_Init \/ CougControls_Init
    /\ node = "PIDControl" => parameters.trim_ratio # 0
    /\ pair = [a |-> NewRun, b |-> NewRun, c |-> NewRun, msgs |-> 0, ticks |-> 0]

Pair_Unchanged ==
    UNCHANGED <<node, parameters, magnetic_declination, startup, pc, bench,
                stamps, init_flag, inputVars, pidVars, outputVars, tickVars,
                delivered, fresh, msgs>>

\* One more message delivered to the three runs.
Pair_Message(a, b, c) ==
    /\ pair.msgs < MaxMsgs
    /\ pair' = [pair EXCEPT !.a = a, !.b = b, !.c = c, !.msgs = @ + 1]
    /\ Pair_Unchanged

Pair_init_callback ==
    Pair_Message(Run_init_callback(pair.a), Run_init_callback(pair.b),
                 Run_init_callback(pair.c))

Pair_desired_depth_callback ==
    \E v \in DesiredDepthValues, w \in DesiredDepthValues :
        Pair_Message(Run_desired_depth_callback(pair.a, v),
                     Run_desired_depth_callback(pair.b, v),
                     Run_desired_depth_callback(pair.c, w))

Pair_desired_heading_callback ==
    \E v \in DesiredHeadingValues, w \in DesiredHeadingValues :
        Pair_Message(Run_desired_heading_callback(pair.a, v),
                     Run_desired_heading_callback(pair.b, w),
                     Run_desired_heading_callback(pair.c, v))

Pair_desired_speed_callback ==
    \E v \in DesiredSpeedValues :
        Pair_Message(Run_desired_speed_callback(pair.a, v),
                     Run_desired_speed_callback(pair.b, v),
                     Run_desired_speed_callback(pair.c, v))

Pair_depth_callback ==
    \E z \in DepthZValues, w \in DepthZValues :
        Pair_Message(Run_depth_callback(pair.a, z),
                     Run_depth_callback(pair.b, z),
                     Run_depth_callback(pair.c, w))

Pair_heading_callback ==
    \E id \in MsgIds, y \in AttitudeYawValues, w \in AttitudeYawValues :
        Pair_Message(
            Run_heading_callback(pair.a, [msg_id |-> id, attitude_yaw |-> y]),
            Run_heading_callback(pair.b, [msg_id |-> id, attitude_yaw |-> w]),
            Run_heading_callback(pair.c, [msg_id |-> id, attitude_yaw |-> y]))

Pair_timer_callback ==
    /\ pair.ticks < MaxTicks
    /\ pair' = [pair EXCEPT !.a = Run_timer_callback(@),
                            !.b = Run_timer_callback(@),
                            !.c = Run_timer_callback(@),
                            !.ticks = @ + 1]
    /\ Pair_Unchanged

PairNext ==
    \/ Pair_init_callback
    \/ Pair_desired_depth_callback
    \/ Pair_desired_heading_callback
    \/ Pair_desired_speed_callback
    \/ Pair_depth_callback
    \/ Pair_heading_callback
    \/ Pair_timer_callback

PairSpec == PairInit /\ [][PairNext]_vars

\* What the depth axis of a run holds and last produced.
DepthView(r) == <<r.desired_depth, r.depth, r.myDepthPID, r.depth_pos>>

\* What the heading axis of a run holds and last produced.
HeadingView(r) == <<r.desired_heading, r.heading, r.myHeadingPID, r.heading_pos>>

\* C21: two runs that received the same init, ticks and depth-axis messages
\* but different heading-axis messages have the same depth controller state
\* and depth position after every step; two runs that differ only in
\* depth-axis messages have the same heading controller state and heading
\* position; and in every run the next tick gives the same members and the
\* same command when its two compute calls are exchanged.
C21_AxisIndependence ==
    /\ DepthView(pair.a) = DepthView(pair.b)
    /\ HeadingView(pair.a) = HeadingView(pair.c)
    /\ \A r \in {pair.a, pair.b, pair.c} :
          Run_timer_callback_heading_first(r) = Run_timer_callback(r)

C21_Witness ==
    /\ pair.a.n_published >= 1
    /\ pair.a.heading_pos # pair.b.heading_pos
    /\ pair.a.myHeadingPID # pair.b.myHeadingPID
    /\ pair.a.myDepthPID.previous_error # 0
    /\ pair.a.depth_pos # 0

\* f is the integer that x tenths become in an int field: the fraction is
\* dropped, toward zero.
IsTruncationOf(f, x) ==
    /\ x >= 0 => (f * Scale <= x /\ x < (f + 1) * Scale)
    /\ x < 0 => ((f - 1) * Scale < x /\ x <= f * Scale)

\* cmd is what the mixing statements of the node give for these positions and
\* this desired speed, with the node's trim ratio and fin offsets.
IsMixOf(cmd, depth_pos, heading_pos, speed) ==
    /\ IsTruncationOf(cmd.thruster, speed)
    /\ IF node = "PIDControl"
          THEN LET trim == parameters.trim_ratio * cmd.thruster
               IN  /\ IsTruncationOf(cmd.fin[0],
                          heading_pos * Scale + trim + parameters.top_fin_offset)
                   /\ IsTruncationOf(cmd.fin[1],
                          depth_pos * Scale + trim + parameters.right_fin_offset)
                   /\ IsTruncationOf(cmd.fin[2],
                          depth_pos * Scale + trim + parameters.left_fin_offset)
          ELSE /\ cmd.fin[0] = heading_pos
               /\ cmd.fin[1] = -depth_pos
               /\ cmd.fin[2] = depth_pos

\* C22: the command of every RUNNING tick is the mix of that tick's
\* depth_pos, heading_pos and desired speed with the fixed trim ratio and
\* offsets, whatever the command before it was, and it is emitted as mixed,
\* without being limited to the output range of an axis.
C22_MixerStatelessUnclamped ==
    [][(TimerStep /\ init_flag) =>
          IsMixOf(control_command', tick_log'.depth_pos, tick_log'.heading_pos,
                  desired_speed)]_vars

C22_Witness ==
    /\ n_published >= 1
    /\ node = "PIDControl"
    /\ tick_log.heading_pos = myHeadingPID.max_output
    /\ control_command.fin[0] > myHeadingPID.max_output

\* The affine combination behind fin channel i of the last command, in
\* tenths, with the signs and offsets of the node's own mixing statements.
FinSum(i) ==
    LET trim == parameters.trim_ratio * control_command.thruster
    IN  IF node = "PIDControl"
           THEN CASE i = 0 -> tick_log.heading_pos * Scale + trim
                              + parameters.top_fin_offset
                  [] i = 1 -> tick_log.depth_pos * Scale + trim
                              + parameters.right_fin_offset
                  [] i = 2 -> tick_log.depth_pos * Scale + trim
                              + parameters.left_fin_offset
           ELSE CASE i = 0 -> tick_log.heading_pos * Scale
                  [] i = 1 -> -1 * tick_log.depth_pos * Scale
                  [] i = 2 -> tick_log.depth_pos * Scale

\* trim_ratio and the three offsets are whole numbers.
WholeMixParameters ==
    /\ parameters.trim_ratio % Scale = 0
    /\ parameters.top_fin_offset % Scale = 0
    /\ parameters.right_fin_offset % Scale = 0
    /\ parameters.left_fin_offset % Scale = 0

\* C23 as stated: each fin channel of an emitted command is exactly the affine
\* combination of depth_output, heading_output and speed_value, also when
\* trim_ratio or an offset is not a whole number.
C23_FinsExactlyAffine ==
    n_published > 0 =>
        \A i \in 0..2 : control_command.fin[i] * Scale = FinSum(i)

\* C23, amended: each fin channel is the affine combination with its
\* fractional part discarded, toward zero; it is the affine combination
\* itself when trim_ratio and the offsets are whole numbers.
C23_FinsTruncatedAffine ==
    n_published > 0 =>
        /\ \A i \in 0..2 : IsTruncationOf(control_command.fin[i], FinSum(i))
        /\ WholeMixParameters =>
               \A i \in 0..2 : control_command.fin[i] * Scale = FinSum(i)

C23_Witness ==
    /\ n_published > 0
    /\ node = "PIDControl"
    /\ control_command.thruster # 0
    /\ FinSum(1) < 0
    /\ \A i \in 0..2 : FinSum(i) % Scale # 0

\* C24: the header stamp of the latest command is the clock value read by the
\* first statement of the tick that published it: read before the tick's
\* depth compute, heading compute and publish, not earlier than the stamp of
\* the command before it and not later than the moment of its publish.
C24_StampAtTickStart ==
    /\ ~ExecutorIdle =>
           /\ pc.stamp = stamps.began
           /\ pc.stamp <= Now
    /\ n_published > 0 =>
           /\ ExecutorIdle => stamps.stamp = stamps.began
           /\ stamps.previous <= stamps.stamp
           /\ stamps.stamp <= stamps.published_at

C24_Witness ==
    /\ n_published >= 2
    /\ ExecutorIdle
    /\ stamps.previous > 0
    /\ stamps.previous < stamps.stamp
    /\ stamps.stamp < stamps.published_at

\* A message is delivered and it is on none of the setpoint and depth
\* channels: a modem message.
ModemStep ==
    /\ InputStep
    /\ delivered'.modem # NoMsg
    /\ \A c \in {"desired_depth", "desired_heading", "desired_speed",
                 "depth_data"} : delivered'[c] = delivered[c]

\* C25: in PIDControl a modem_rec message whose msg_id is not 0x10 leaves yaw,
\* every other input, the init flag, the controllers and the last command
\* unchanged; one whose msg_id is 0x10 stores its attitude_yaw in yaw and
\* changes nothing else.
C25_OnlyStatusWritesYaw ==
    [][(node = "PIDControl" /\ ModemStep) =>
          /\ UNCHANGED <<init_flag, desired_depth, desired_heading,
                         desired_speed, depth, x_velocity, actual_depth,
                         actual_heading, pidVars, outputVars>>
          /\ yaw' = IF delivered'.modem[1].msg_id = STATUS_MSG_ID
                       THEN delivered'.modem[1].attitude_yaw * Scale
                       ELSE yaw]_vars

C25_Witness ==
    /\ node = "PIDControl"
    /\ delivered.status # NoMsg
    /\ delivered.modem # NoMsg
    /\ delivered.modem[1].msg_id # STATUS_MSG_ID
    /\ delivered.modem[1].attitude_yaw # delivered.status[1].attitude_yaw
    /\ yaw = delivered.status[1].attitude_yaw * Scale

\* The value last delivered on `channel` before init first arrived, 0 if none.
BeforeInit(channel) ==
    IF delivered.at_init[1][channel] = NoMsg THEN 0
    ELSE delivered.at_init[1][channel][1]

\* No message arrived on `channel` since init first arrived.
QuietSinceInit(channel) == delivered[channel] = delivered.at_init[1][channel]

FirstRunningTick == TimerStep /\ init_flag /\ running_ticks = 0

\* C26: messages delivered while init_flag is false are kept: every input
\* callback stores its value whatever init_flag is, the init callback leaves
\* the stored values alone, and the first RUNNING tick computes with the last
\* value delivered on each channel, which is the one delivered before init
\* wherever nothing arrived on that channel after it.
C26_GateKeepsInputs ==
    [][/\ (~init_flag' =>
              /\ desired_depth' = LastOr0("desired_depth")'
              /\ desired_heading' = LastOr0("desired_heading")'
              /\ desired_speed' = LastOr0("desired_speed")'
              /\ StoredDepth' = LastOr0("depth_data")'
              /\ StoredHeading' = HeadingOf(delivered.status)')
       /\ (InitStep => UNCHANGED inputVars)
       /\ (FirstRunningTick =>
              /\ tick_log'.depth_args =
                    <<LastOr0("desired_depth"), -LastOr0("depth_data")>>
              /\ tick_log'.heading_args =
                    <<LastOr0("desired_heading"), HeadingOf(delivered.status)>>
              /\ control_command'.thruster = FloatToInt(LastOr0("desired_speed"))
              /\ (QuietSinceInit("desired_depth") =>
                     tick_log'.depth_args[1] = BeforeInit("desired_depth"))
              /\ (QuietSinceInit("depth_data") =>
                     tick_log'.depth_args[2] = -BeforeInit("depth_data"))
              /\ (QuietSinceInit("desired_heading") =>
                     tick_log'.heading_args[1] = BeforeInit("desired_heading"))
              /\ (QuietSinceInit("status") =>
                     tick_log'.heading_args[2] =
                        HeadingOf(delivered.at_init[1].status))
              /\ (QuietSinceInit("desired_speed") =>
                     control_command'.thruster =
                        FloatToInt(BeforeInit("desired_speed"))))]_vars

\* A setpoint and a depth arrived before init, nothing after it, and the
\* first RUNNING tick has computed with both.
C26_Witness ==
    /\ running_ticks = 1
    /\ delivered.at_init # NoMsg
    /\ delivered.at_init[1].desired_depth # NoMsg
    /\ delivered.at_init[1].depth_data # NoMsg
    /\ QuietSinceInit("desired_depth")
    /\ QuietSinceInit("depth_data")
    /\ BeforeInit("desired_depth") # 0
    /\ BeforeInit("depth_data") # 0
    /\ tick_log.depth_args =
          <<BeforeInit("desired_depth"), -BeforeInit("depth_data")>>

\* C27: only a RUNNING tick calls compute or publishes: every other step (an
\* init, setpoint or sensor callback, a tick before init) leaves the
\* controllers, the compute counts and the published command as they were,
\* and the depth and the heading controller have each computed exactly once
\* per published command.
C27_OnlyTickDrives ==
    [][/\ (~(TimerStep /\ init_flag) =>
              UNCHANGED <<pidVars, compute_calls, outputVars>>)
       /\ compute_calls'.depth = n_published'
       /\ compute_calls'.heading = n_published']_vars

\* Two commands are out, inputs arrived on both sides of the gate, and the
\* depth controller carries the error of its last compute.
C27_Witness ==
    /\ n_published = 2
    /\ compute_calls.depth = 2
    /\ compute_calls.heading = 2
    /\ delivered.init > 0
    /\ msgs >= 2
    /\ delivered.depth_data # NoMsg
    /\ myDepthPID.previous_error # 0

====
